---- MODULE Spec2Model ----
(***************************************************************************)
(* Assets API (src/main.py): FastAPI route handlers over one MongoDB       *)
(* collection, "asset".  The store is the collection in store-native       *)
(* (insertion) order.  Every handler is cut at its store round trips: one  *)
(* action runs the handler's code up to and including one store call, so   *)
(* that requests served concurrently interleave exactly where the code     *)
(* lets them.  Spec runs the requests concurrently, SpecCrud all but the    *)
(* seed concurrently, SpecSeq all of them one at a time.                   *)
(*                                                                         *)
(* Values are written as their JSON literals: text as strings, booleans as *)
(* "true"/"false", None as "null".  A document is a function from its keys *)
(* to values, so a key a document lacks is outside its DOMAIN.             *)
(***************************************************************************)
EXTENDS Integers, Sequences, FiniteSets, TLC

\* ------------------------------------------------------------- bounds
\* Requests served in one behaviour when they are served concurrently.
MaxOps == 2
\* Requests served in one behaviour when they are served one at a time.
MaxSeqOps == 3
\* The collection at process start holds 0..MaxInit documents (under SpecSeq
\* also ListLimit documents, a full page of the list).
MaxInit == 2

\* ---------------------------------------------------------- constants
\* range(8): the demo records of one seed.
DemoCount == 8
\* .limit(24): the records a seed returns.
SeedLimit == 24
\* get_documents("asset", {}, 100): the records a list returns.
ListLimit == 100

JTrue == "true"
JFalse == "false"
Null == "null"

\* The slots requests are served in (two workers).
Reqs == {"r1", "r2"}

VARIABLES
    dbUp,       \* the module global db is not None
    asset,      \* db["asset"]: the documents, in store-native order
    nextOid,    \* the store's ObjectId generator
    now,        \* the clock datetime.utcnow reads; it moves on at every reading
    req,        \* per slot: the request served there, its locals and its response
    nOps,       \* requests begun so far
    cur,        \* history: the slot of the request begun last
    pre,        \* history: the collection when that request began
    everIds,    \* history: every _id a document of the collection ever had
    created,    \* history: what POST /api/assets returned for payloads, not since patched or deleted
    base,       \* history: each document as it was first stored
    log         \* history: the $set updates that took effect, in order

vars == <<dbUp, asset, nextOid, now, req, nOps, cur, pre, everIds, created, base, log>>

\* ------------------------------------------------------------ helpers
Min(a, b) == IF a < b THEN a ELSE b

EmptyDict == [k \in {} |-> Null]

\* cursor.limit(n)
Limit(s, n) == SubSeq(s, 1, Min(n, Len(s)))

Ids(s) == {s[i]._id : i \in 1..Len(s)}

\* str(ObjectId): 24 hexadecimal digits spelling the id.
StrOfOid(n) == [kind |-> "hex24", n |-> n]

\* Faulty variant: the id is checked for hexadecimal digits only, not for its length.
IsValidOidAnyLength(s) == s.kind \in {"hex24", "hex23"}

\* ObjectId(asset_id) raises unless asset_id is 24 hexadecimal digits.
IsValidOid(s) == s.kind = "hex24"

OidOf(s) == s.n

NoId == [kind |-> "none", n |-> 0]

\* dict.get(key), None when the key is missing.
Get(doc, k) == IF k \in DOMAIN doc THEN doc[k] ELSE Null

\* Faulty variant: title and prompt swapped in the output.
SerializeAssetSwapped(doc) ==
    [id |-> StrOfOid(doc._id),
     title |-> Get(doc, "prompt"),
     image_url |-> Get(doc, "image_url"),
     prompt |-> Get(doc, "title"),
     is_active |-> IF "is_active" \in DOMAIN doc THEN doc.is_active ELSE JTrue]

\* _serialize_asset: is_active defaults to True when the document lacks the key.
SerializeAsset(doc) ==
    [id |-> StrOfOid(doc._id),
     title |-> Get(doc, "title"),
     image_url |-> Get(doc, "image_url"),
     prompt |-> Get(doc, "prompt"),
     is_active |-> IF "is_active" \in DOMAIN doc THEN doc.is_active ELSE JTrue]

\* AssetOut's field types: three str and one bool; None fails validation.
AssetOutValid(o) ==
    /\ o.title # Null
    /\ o.image_url # Null
    /\ o.prompt # Null
    /\ o.is_active \in {JTrue, JFalse}

SerializeAll(docs) == [i \in 1..Len(docs) |-> SerializeAsset(docs[i])]

AllValid(outs) == \A i \in 1..Len(outs) : AssetOutValid(outs[i])

\* Responses.
Resp(status, detail, items) == [status |-> status, detail |-> detail, items |-> items]

StoreUnavailable == Resp(500, "Database not available", <<>>)
InvalidIdentifier == Resp(400, "Invalid asset id", <<>>)
NoChanges == Resp(400, "No changes provided", <<>>)
NotFound == Resp(404, "Asset not found", <<>>)
ServerError == Resp(500, "Internal Server Error", <<>>)
StatusOk == Resp(200, "ok", <<>>)
NoResp == Resp(0, "", <<>>)

\* A list of AssetOut as the response model validates it.
AssetList(docs) ==
    IF AllValid(SerializeAll(docs)) THEN Resp(200, "", SerializeAll(docs)) ELSE ServerError

\* One AssetOut; serialising None (no document) raises.
AssetOne(docs) ==
    IF docs = <<>> THEN ServerError
    ELSE IF AssetOutValid(SerializeAsset(docs[1])) THEN Resp(200, "", <<SerializeAsset(docs[1])>>)
    ELSE ServerError

\* find({"_id": oid}): the documents with that _id (at most one).
FindById(s, oid) == SelectSeq(s, LAMBDA d : d._id = oid)

\* Asset.model_dump(): is_active defaults to True.
AssetDump(p) ==
    [title |-> p.title, image_url |-> p.image_url, prompt |-> p.prompt,
     is_active |-> IF "is_active" \in DOMAIN p THEN p.is_active ELSE JTrue]

\* The generated _id of an insert.
NewOid == nextOid

\* insert_one: the record with its generated _id, appended.
InsertOne(s, rec) ==
    Append(s, [k \in DOMAIN rec \cup {"_id"} |-> IF k = "_id" THEN NewOid ELSE rec[k]])

\* demo[i] of seed_assets (i counts from 0).
SampleTitles == <<"Sample #1", "Sample #2", "Sample #3", "Sample #4",
                  "Sample #5", "Sample #6", "Sample #7", "Sample #8">>

Demo(i) ==
    [title |-> SampleTitles[i + 1], image_url |-> "unsplash", prompt |-> "futuristic",
     is_active |-> JTrue]

\* Faulty variant: the "if v is not None" filter dropped.
UpdateDataKeepNull(patch) == patch

\* {k: v for k, v in patch.model_dump(exclude_unset=True).items() if v is not None}
UpdateData(patch) == [k \in {f \in DOMAIN patch : patch[f] # Null} |-> patch[k]]

\* Faulty variant: the update document without "$set": it replaces the document.
SetFieldsReplace(doc, fields) ==
    [k \in {"_id"} \cup DOMAIN fields |-> IF k \in DOMAIN fields THEN fields[k] ELSE doc[k]]

\* {"$set": fields} on one document.
SetFields(doc, fields) ==
    [k \in DOMAIN doc \cup DOMAIN fields |-> IF k \in DOMAIN fields THEN fields[k] ELSE doc[k]]

\* Faulty variant: upsert=True, a document is inserted when none matches.
FindOneAndUpdateUpsert(s, oid, fields) ==
    IF \E i \in 1..Len(s) : s[i]._id = oid
    THEN [i \in 1..Len(s) |-> IF s[i]._id = oid THEN SetFields(s[i], fields) ELSE s[i]]
    ELSE Append(s, [k \in DOMAIN fields \cup {"_id"} |-> IF k = "_id" THEN oid ELSE fields[k]])

\* Faulty variant: read-modify-write of a stale copy (the document as first stored).
FindOneAndUpdateStale(s, oid, fields) ==
    [i \in 1..Len(s) |-> IF s[i]._id = oid THEN SetFields(base[oid], fields) ELSE s[i]]

\* find_one_and_update({"_id": oid}, {"$set": fields}): no upsert.
FindOneAndUpdate(s, oid, fields) ==
    [i \in 1..Len(s) |-> IF s[i]._id = oid THEN SetFields(s[i], fields) ELSE s[i]]

\* update_data with updated_at added (line 127).
WithStamp(fields, t) ==
    [k \in DOMAIN fields \cup {"updated_at"} |-> IF k = "updated_at" THEN t ELSE fields[k]]

\* Faulty variant: the filter dropped, delete_one({}) removes the first document.
DeleteOneAny(s, oid) == IF s = <<>> THEN s ELSE Tail(s)

\* delete_one({"_id": oid}): removes the first match, if any.
DeleteOne(s, oid) ==
    IF \E i \in 1..Len(s) : s[i]._id = oid
    THEN LET i == CHOOSE j \in 1..Len(s) :
                      s[j]._id = oid /\ \A k \in 1..(j - 1) : s[k]._id # oid
         IN  SubSeq(s, 1, i - 1) \o SubSeq(s, i + 1, Len(s))
    ELSE s

\* Faulty variant: the collection counts as seeded only with a full set of demo records.
ExistingFullSet(s) == Len(s) >= DemoCount

\* Lines 79-80: existing = list(find({}).limit(1)); if existing.
Existing(s) == Limit(s, 1) # <<>>

\* Faulty variant: the empty check dropped.
NoUpdateNever(fields) == FALSE

\* Line 124: if not update_data.
NoUpdate(fields) == fields = EmptyDict

\* ------------------------------------------------------------- inputs
CreatePayloads ==
    { [title |-> "t1", image_url |-> "u1", prompt |-> "p1"],
      [title |-> "t2", image_url |-> "u1", prompt |-> "p1", is_active |-> JFalse] }

PatchPayloads ==
    { EmptyDict,
      [title |-> Null],
      [is_active |-> JFalse],
      [title |-> "t3", is_active |-> Null],
      [title |-> "t4", prompt |-> "p2"] }

\* Two well-formed ids, one a digit short, and one that is no hexadecimal text.
IdInputs == { StrOfOid(1), StrOfOid(2), [kind |-> "hex23", n |-> 1], [kind |-> "text", n |-> 0] }

\* A document stored before this process started; the odd ones lack is_active.
InitDoc(i) ==
    IF i % 2 = 1
    THEN [_id |-> i, title |-> "t0", image_url |-> "u0", prompt |-> "p0"]
    ELSE [_id |-> i, title |-> "t0", image_url |-> "u0", prompt |-> "p0", is_active |-> JFalse]


\* ------------------------------------------------------------ requests
Idle ==
    [op |-> "none", pc |-> "idle", asset_id |-> NoId, payload |-> EmptyDict,
     update_data |-> EmptyDict, existing |-> FALSE, i |-> 0, inserted_id |-> NoId,
     res |-> <<>>, calls |-> 0, resp |-> NoResp]

Free(r) == req[r].pc \in {"idle", "done"}

\* A request is taken by the first free slot.
Begin(r) ==
    /\ Free(r)
    /\ r = "r1" \/ ~Free("r1")
    /\ nOps' = nOps + 1
    /\ cur' = r
    /\ pre' = asset

Done(rq, resp) == [rq EXCEPT !.pc = "done", !.resp = resp]

InitWith(sizes) ==
    /\ dbUp \in BOOLEAN
    /\ \E n \in sizes :
          /\ dbUp \/ n = 0
          /\ asset = [i \in 1..n |-> InitDoc(i)]
          /\ nextOid = n + 1
          /\ everIds = 1..n
          /\ base = [i \in 1..n |-> InitDoc(i)]
    /\ now = 1
    /\ req = [r \in Reqs |-> Idle]
    /\ nOps = 0
    /\ cur = "r1"
    /\ pre = asset
    /\ created = {}
    /\ log = <<>>

Init == InitWith(0..MaxInit)

InitSeq == InitWith((0..MaxInit) \cup {ListLimit})

\* ---- POST /api/assets/seed ----
\* Lines 77-80: the handle check and find({}).limit(1).
SeedStart(r) ==
    /\ Begin(r)
    /\ req' = [req EXCEPT ![r] =
          IF ~dbUp THEN Done([Idle EXCEPT !.op = "seed"], StoreUnavailable)
          ELSE [Idle EXCEPT !.op = "seed", !.calls = 1,
                            !.existing = Existing(asset),
                            !.pc = IF Existing(asset) THEN "seed_read" ELSE "seed_insert"]]
    /\ UNCHANGED <<dbUp, asset, nextOid, now, everIds, created, base, log>>

\* Lines 92-93: one create_document("asset", d) of the loop.
SeedInsert(r) ==
    /\ req[r].pc = "seed_insert"
    /\ asset' = InsertOne(asset, Demo(req[r].i))
    /\ nextOid' = nextOid + 1
    /\ everIds' = everIds \cup Ids(asset')
    /\ base' = [id \in DOMAIN base \cup {asset'[Len(asset')]._id} |->
                   IF id \in DOMAIN base THEN base[id] ELSE asset'[Len(asset')]]
    /\ req' = [req EXCEPT ![r].i = @ + 1, ![r].calls = @ + 1,
                          ![r].pc = IF req[r].i + 1 = DemoCount THEN "seed_read" ELSE "seed_insert"]
    /\ UNCHANGED <<dbUp, now, nOps, cur, pre, created, log>>

\* Line 81 or 94: find({}).limit(24), serialised.
SeedRead(r) ==
    /\ req[r].pc = "seed_read"
    /\ req' = [req EXCEPT ![r] = Done([req[r] EXCEPT !.calls = @ + 1],
                                      AssetList(Limit(asset, SeedLimit)))]
    /\ UNCHANGED <<dbUp, asset, nextOid, now, nOps, cur, pre, everIds, created, base, log>>

\* ---- GET /api/assets ----
ListAssets(r) ==
    /\ Begin(r)
    /\ req' = [req EXCEPT ![r] =
          IF ~dbUp THEN Done([Idle EXCEPT !.op = "list"], StoreUnavailable)
          ELSE Done([Idle EXCEPT !.op = "list", !.calls = 1], AssetList(Limit(asset, ListLimit)))]
    /\ UNCHANGED <<dbUp, asset, nextOid, now, everIds, created, base, log>>

\* ---- POST /api/assets ----
\* Lines 107-109: the handle check and create_document("asset", asset).
CreateStart(r, p) ==
    /\ Begin(r)
    /\ IF ~dbUp
       THEN /\ req' = [req EXCEPT ![r] =
                          Done([Idle EXCEPT !.op = "create", !.payload = p], StoreUnavailable)]
            /\ UNCHANGED <<asset, nextOid, everIds, base>>
       ELSE /\ asset' = InsertOne(asset, AssetDump(p))
            /\ nextOid' = nextOid + 1
            /\ everIds' = everIds \cup Ids(asset')
            /\ base' = [id \in DOMAIN base \cup {asset'[Len(asset')]._id} |->
                           IF id \in DOMAIN base THEN base[id] ELSE asset'[Len(asset')]]
            /\ req' = [req EXCEPT ![r] =
                          [Idle EXCEPT !.op = "create", !.payload = p, !.calls = 1,
                                       !.inserted_id = StrOfOid(asset'[Len(asset')]._id),
                                       !.pc = "create_read"]]
    /\ UNCHANGED <<dbUp, now, created, log>>

\* Lines 110-111: find_one by the inserted id, serialised.
CreateRead(r) ==
    /\ req[r].pc = "create_read"
    /\ LET out == AssetOne(FindById(asset, OidOf(req[r].inserted_id)))
       IN  /\ req' = [req EXCEPT ![r] = Done([req[r] EXCEPT !.calls = @ + 1], out)]
           /\ created' = IF out.status = 200
                         THEN created \cup {[id |-> out.items[1].id, payload |-> req[r].payload]}
                         ELSE created
    /\ UNCHANGED <<dbUp, asset, nextOid, now, nOps, cur, pre, everIds, base, log>>

\* ---- PATCH /api/assets/{asset_id} ----
\* Lines 116-127: the handle check, the id, the field set, the clock.
PatchStart(r, id, p) ==
    /\ Begin(r)
    /\ LET rq == [Idle EXCEPT !.op = "patch", !.asset_id = id, !.payload = p]
       IN  IF ~dbUp THEN req' = [req EXCEPT ![r] = Done(rq, StoreUnavailable)] /\ now' = now
           ELSE IF ~IsValidOid(id)
           THEN req' = [req EXCEPT ![r] = Done(rq, InvalidIdentifier)] /\ now' = now
           ELSE IF NoUpdate(UpdateData(p))
           THEN req' = [req EXCEPT ![r] = Done(rq, NoChanges)] /\ now' = now
           ELSE /\ now' = now + 1
                /\ req' = [req EXCEPT ![r] =
                              [rq EXCEPT !.update_data = WithStamp(UpdateData(p), now),
                                         !.pc = "patch_update"]]
    /\ UNCHANGED <<dbUp, asset, nextOid, everIds, created, base, log>>

\* Line 128: find_one_and_update, atomic in the store.
PatchUpdate(r) ==
    /\ req[r].pc = "patch_update"
    /\ LET oid == OidOf(req[r].asset_id)
           hit == FindById(asset, oid)
       IN  /\ asset' = FindOneAndUpdate(asset, oid, req[r].update_data)
           /\ req' = [req EXCEPT ![r].res = FindById(asset', oid), ![r].calls = @ + 1,
                                 ![r].pc = "patch_read"]
           /\ log' = IF hit # <<>>
                     THEN Append(log, [slot |-> r, oid |-> oid, fields |-> req[r].update_data])
                     ELSE log
           /\ created' = {c \in created : c.id # req[r].asset_id}
    /\ UNCHANGED <<dbUp, nextOid, now, nOps, cur, pre, everIds, base>>

\* Lines 129-132: find_one again; 404 when it is gone.
PatchRead(r) ==
    /\ req[r].pc = "patch_read"
    /\ LET doc == FindById(asset, OidOf(req[r].asset_id))
       IN  req' = [req EXCEPT ![r] =
                      Done([req[r] EXCEPT !.calls = @ + 1],
                           IF doc = <<>> THEN NotFound ELSE AssetOne(doc))]
    /\ UNCHANGED <<dbUp, asset, nextOid, now, nOps, cur, pre, everIds, created, base, log>>

\* ---- DELETE /api/assets/{asset_id} ----
DeleteAsset(r, id) ==
    /\ Begin(r)
    /\ LET rq == [Idle EXCEPT !.op = "delete", !.asset_id = id]
       IN  IF ~dbUp
           THEN /\ req' = [req EXCEPT ![r] = Done(rq, StoreUnavailable)]
                /\ UNCHANGED <<asset, created>>
           ELSE IF ~IsValidOid(id)
           THEN /\ req' = [req EXCEPT ![r] = Done(rq, InvalidIdentifier)]
                /\ UNCHANGED <<asset, created>>
           ELSE /\ asset' = DeleteOne(asset, OidOf(id))
                /\ created' = {c \in created : c.id # id}
                /\ req' = [req EXCEPT ![r] = Done([rq EXCEPT !.calls = 1], StatusOk)]
    /\ UNCHANGED <<dbUp, nextOid, now, everIds, base, log>>

\* ------------------------------------------------------ specifications
\* A request arrives while others may be in service.
Arrive(r) == nOps < MaxOps

\* A request arrives when no other is in service.
ArriveAlone(r) == nOps < MaxSeqOps /\ \A q \in Reqs \ {r} : Free(q)

\* Requests served concurrently, interleaved at their store calls.
Next ==
    \E r \in Reqs :
        \/ Arrive(r) /\ SeedStart(r)
        \/ SeedInsert(r)
        \/ SeedRead(r)
        \/ Arrive(r) /\ ListAssets(r)
        \/ \E p \in CreatePayloads : Arrive(r) /\ CreateStart(r, p)
        \/ CreateRead(r)
        \/ \E id \in IdInputs, p \in PatchPayloads : Arrive(r) /\ PatchStart(r, id, p)
        \/ PatchUpdate(r)
        \/ PatchRead(r)
        \/ \E id \in IdInputs : Arrive(r) /\ DeleteAsset(r, id)

Spec == Init /\ [][Next]_vars

\* The requests on single records (and the list) served concurrently.
NextCrud ==
    \E r \in Reqs :
        \/ Arrive(r) /\ ListAssets(r)
        \/ \E p \in CreatePayloads : Arrive(r) /\ CreateStart(r, p)
        \/ CreateRead(r)
        \/ \E id \in IdInputs, p \in PatchPayloads : Arrive(r) /\ PatchStart(r, id, p)
        \/ PatchUpdate(r)
        \/ PatchRead(r)
        \/ \E id \in IdInputs : Arrive(r) /\ DeleteAsset(r, id)

SpecCrud == Init /\ [][NextCrud]_vars

\* Requests served one after the other.
NextSeq ==
    \E r \in Reqs :
        \/ ArriveAlone(r) /\ SeedStart(r)
        \/ SeedInsert(r)
        \/ SeedRead(r)
        \/ ArriveAlone(r) /\ ListAssets(r)
        \/ \E p \in CreatePayloads : ArriveAlone(r) /\ CreateStart(r, p)
        \/ CreateRead(r)
        \/ \E id \in IdInputs, p \in PatchPayloads : ArriveAlone(r) /\ PatchStart(r, id, p)
        \/ PatchUpdate(r)
        \/ PatchRead(r)
        \/ \E id \in IdInputs : ArriveAlone(r) /\ DeleteAsset(r, id)

SpecSeq == InitSeq /\ [][NextSeq]_vars

\* ------------------------------------------------------------- claims
\* The request begun last has been answered (under SpecSeq: nothing ran since).
JustDone(kind) == req[cur].op = kind /\ req[cur].pc = "done"

Range(seq) == {seq[i] : i \in 1..Len(seq)}

IsDemo(doc) == doc.title \in Range(SampleTitles)

\* C1: served one at a time, a seed on an empty collection inserts exactly 8
\* records (the demo records, in order); a seed on a non-empty collection of any
\* size inserts nothing, leaves the collection as it was and returns its first 24
\* records.
C1_SeedIdempotent ==
    (dbUp /\ JustDone("seed")) =>
        /\ req[cur].resp.status = 200
        /\ req[cur].resp.items = SerializeAll(Limit(asset, 24))
        /\ IF pre = <<>>
           THEN /\ Len(asset) = 8
                /\ \A i \in 1..8 : asset[i].title = SampleTitles[i] /\ asset[i].is_active = JTrue
                /\ Cardinality(Ids(asset)) = 8
           ELSE /\ asset = pre
                /\ Len(req[cur].resp.items) <= 24

\* A second seed, after the first one filled the collection, has been answered.
C1_Witness ==
    /\ JustDone("seed")
    /\ Len(pre) = 8
    /\ IsDemo(pre[1])
    /\ req[cur].resp.status = 200

\* C2: starting from an empty collection the collection never holds more than 8
\* seeded demo records, however seed and create requests overlap.
C2_AtMostEightSeeded ==
    Len(SelectSeq(asset, IsDemo)) <= 8

\* What a create payload must come back as.
Expected(c) ==
    [id |-> c.id, title |-> c.payload.title, image_url |-> c.payload.image_url,
     prompt |-> c.payload.prompt,
     is_active |-> IF "is_active" \in DOMAIN c.payload THEN c.payload.is_active ELSE JTrue]

\* The position of the document with that id string in the collection.
Position(id) == CHOOSE i \in 1..Len(asset) : StrOfOid(asset[i]._id) = id

Stored(id) == \E i \in 1..Len(asset) : StrOfOid(asset[i]._id) = id

\* C3 as stated: whatever the collection held before, a list that follows a
\* successful create (the created record neither deleted nor patched since)
\* returns the created record with the payload's fields.
C3_ListHasCreated_Original ==
    (JustDone("list") /\ req[cur].resp.status = 200) =>
        \A c \in created : Expected(c) \in Range(req[cur].resp.items)

\* C3 amended: the list returns the created record, with the payload's fields,
\* exactly when it is among the first 100 records of the collection.
C3_ListHasCreated ==
    (JustDone("list") /\ req[cur].resp.status = 200) =>
        \A c \in created :
            /\ Stored(c.id)
            /\ Expected(c) \in Range(req[cur].resp.items) <=> Position(c.id) <= 100

\* A list answered after a create whose payload left is_active out.
C3_Witness ==
    /\ JustDone("list")
    /\ \E c \in created :
          /\ "is_active" \notin DOMAIN c.payload
          /\ Expected(c) \in Range(req[cur].resp.items)

\* The fields a patch payload sets to a non-null value.
Effective(p) == {f \in DOMAIN p : p[f] # Null}

TargetOid == OidOf(req[cur].asset_id)

\* The latest reading of the clock.
LastReading == now - 1

\* C4: served alone, a PATCH of an existing record that sets the fields S to
\* non-null values gives those fields the payload's values, sets updated_at to
\* the time the request read, and changes nothing else: not the record's other fields or its id, nor any other
\* record.
C4_PatchFrame ==
    (/\ dbUp
     /\ JustDone("patch")
     /\ IsValidOid(req[cur].asset_id)
     /\ Effective(req[cur].payload) # {}
     /\ TargetOid \in Ids(pre)) =>
        /\ req[cur].resp.status = 200
        /\ Len(asset) = Len(pre)
        /\ \A i \in 1..Len(pre) :
              IF pre[i]._id # TargetOid
              THEN asset[i] = pre[i]
              ELSE /\ DOMAIN asset[i] =
                          DOMAIN pre[i] \cup Effective(req[cur].payload) \cup {"updated_at"}
                   /\ asset[i]._id = pre[i]._id
                   /\ asset[i].updated_at = LastReading
                   /\ \A f \in Effective(req[cur].payload) : asset[i][f] = req[cur].payload[f]
                   /\ \A f \in DOMAIN pre[i] \ (Effective(req[cur].payload) \cup {"updated_at"}) :
                          asset[i][f] = pre[i][f]

\* A patch of only is_active: false on an existing record has been answered.
C4_Witness ==
    /\ JustDone("patch")
    /\ req[cur].payload = [is_active |-> JFalse]
    /\ TargetOid \in Ids(pre)
    /\ req[cur].resp.status = 200
    /\ req[cur].resp.items[1].is_active = JFalse

\* C5: with the store handle initialised, a PATCH with a well-formed id whose
\* payload sets no field to a non-null value is answered 400, makes no store call
\* and leaves the collection as it was.
C5_EmptyPatchRejected ==
    (/\ dbUp
     /\ JustDone("patch")
     /\ IsValidOid(req[cur].asset_id)
     /\ Effective(req[cur].payload) = {}) =>
        /\ req[cur].resp.status = 400
        /\ req[cur].calls = 0
        /\ asset = pre

\* A patch whose only field is an explicit null, on an existing record, was refused.
C5_Witness ==
    /\ JustDone("patch")
    /\ req[cur].payload = [title |-> Null]
    /\ IsValidOid(req[cur].asset_id)
    /\ TargetOid \in Ids(pre)
    /\ req[cur].resp.status = 400

Malformed == req[cur].op \in {"patch", "delete"} /\ req[cur].pc = "done"
                 /\ req[cur].asset_id.kind # "hex24"

\* C6 as stated: a PATCH or DELETE with a malformed id is answered 400 whatever
\* the payload and whatever the state of the store handle, with no store call.
C6_MalformedId_Original ==
    Malformed =>
        /\ req[cur].resp.status = 400
        /\ req[cur].calls = 0
        /\ asset = pre

\* C6 amended: a PATCH or DELETE with a malformed id is answered 400 when the
\* store handle is initialised and 500 when it is None, whatever the payload; in
\* both cases no store call is made and the collection is unchanged.
C6_MalformedId ==
    Malformed =>
        /\ req[cur].resp.status = IF dbUp THEN 400 ELSE 500
        /\ req[cur].calls = 0
        /\ asset = pre

\* A patch with a malformed id and a non-empty payload, aimed at a stored
\* record's number, was refused.
C6_Witness ==
    /\ Malformed
    /\ req[cur].op = "patch"
    /\ Effective(req[cur].payload) # {}
    /\ req[cur].asset_id.n \in Ids(asset)
    /\ req[cur].resp.status = 400

\* C7: under any interleaving, the update of a PATCH never adds a record, and
\* its answer is 404 exactly when no record with the id exists at the re-read;
\* otherwise it is that record.
C7_PatchNotFound ==
    [][\A r \in Reqs :
          /\ (req[r].pc = "patch_update" /\ req'[r].pc = "patch_read") =>
                 /\ Len(asset') = Len(asset)
                 /\ Ids(asset') = Ids(asset)
          /\ (req[r].pc = "patch_read" /\ req'[r].pc = "done") =>
                 IF OidOf(req[r].asset_id) \in Ids(asset)
                 THEN /\ req'[r].resp.status = 200
                      /\ req'[r].resp.items[1].id = req[r].asset_id
                 ELSE req'[r].resp = NotFound]_vars

\* A patch whose update matched was answered 404: the record was deleted between
\* the update and the re-read.
C7_Witness ==
    \E r \in Reqs :
        /\ req[r].op = "patch"
        /\ req[r].pc = "done"
        /\ req[r].res # <<>>
        /\ req[r].resp = NotFound

\* C8: with the store handle initialised, a DELETE with a well-formed id is
\* answered {"status": "ok"} whether or not the record exists; exactly that
\* record is removed, and deleting the id again changes nothing.
C8_DeleteIdempotent ==
    (dbUp /\ JustDone("delete") /\ IsValidOid(req[cur].asset_id)) =>
        /\ req[cur].resp = StatusOk
        /\ asset = SelectSeq(pre, LAMBDA d : d._id # TargetOid)
        /\ TargetOid \notin Ids(pre) => asset = pre
        /\ DeleteOne(asset, TargetOid) = asset

\* The second DELETE of an id whose record the first one removed was answered ok.
C8_Witness ==
    /\ JustDone("delete")
    /\ TargetOid \in everIds
    /\ TargetOid \notin Ids(pre)
    /\ req[cur].resp = StatusOk

\* C9: in every reachable state the stored ids are pairwise different, title,
\* image_url and prompt of every stored asset are present and non-null, and
\* every asset in a response carries a boolean is_active, true where the stored
\* record lacks the key; and no step gives a record an id some record had
\* before, or changes a record's id.
C9_DataModel ==
    /\ [](/\ Cardinality(Ids(asset)) = Len(asset)
          /\ \A i \in 1..Len(asset) :
                \A f \in {"title", "image_url", "prompt"} :
                    f \in DOMAIN asset[i] /\ asset[i][f] # Null
          /\ \A r \in Reqs : \A k \in 1..Len(req[r].resp.items) :
                /\ req[r].resp.items[k].is_active \in {JTrue, JFalse}
                /\ \A i \in 1..Len(asset) :
                      (/\ StrOfOid(asset[i]._id) = req[r].resp.items[k].id
                       /\ "is_active" \notin DOMAIN asset[i])
                          => req[r].resp.items[k].is_active = JTrue)
    /\ [][/\ \A id \in Ids(asset') \ Ids(asset) : id \notin everIds
          /\ Len(asset') = Len(asset) =>
                 \A i \in 1..Len(asset) : asset'[i]._id = asset[i]._id]_vars

\* A record was deleted, and a later create got a new id and was serialised with
\* the defaulted is_active.
C9_Witness ==
    /\ \E id \in everIds : id \notin Ids(asset)
    /\ \E r \in Reqs :
          /\ req[r].op = "create"
          /\ req[r].resp.status = 200
          /\ req[r].resp.items[1].id = StrOfOid(nextOid - 1)
          /\ req[r].resp.items[1].is_active = JTrue
          /\ nextOid - 1 \in Ids(asset)

\* {"$set": fields} as the claim reads it: the fields given replace, the rest stay.
Override(doc, fields) ==
    [k \in DOMAIN doc \cup DOMAIN fields |-> IF k \in DOMAIN fields THEN fields[k] ELSE doc[k]]

RECURSIVE ApplyLog(_, _, _)
\* The document after the logged updates of its id, applied in log order.
ApplyLog(doc, l, k) ==
    IF k > Len(l) THEN doc
    ELSE ApplyLog(IF l[k].oid = doc._id THEN Override(doc, l[k].fields) ELSE doc, l, k + 1)

\* C10: under any interleaving, every stored record is its first stored version
\* with the field sets of the PATCH requests applied in the order their atomic
\* updates took effect (no field set by only one request is lost), and the asset
\* a PATCH returns is the record as it stands at that request's re-read.
C10_LastWriteWins ==
    /\ [](\A i \in 1..Len(asset) : asset[i] = ApplyLog(base[asset[i]._id], log, 1))
    /\ [][\A r \in Reqs :
             (/\ req[r].pc = "patch_read"
              /\ req'[r].pc = "done"
              /\ OidOf(req[r].asset_id) \in Ids(asset)) =>
                 \E i \in 1..Len(asset) :
                     /\ asset[i]._id = OidOf(req[r].asset_id)
                     /\ req'[r].resp.items[1].title = asset[i].title
                     /\ req'[r].resp.items[1].image_url = asset[i].image_url
                     /\ req'[r].resp.items[1].prompt = asset[i].prompt
                     /\ "is_active" \in DOMAIN asset[i] =>
                            req'[r].resp.items[1].is_active = asset[i].is_active]_vars

\* Two overlapping PATCH requests on one record: r1's update took effect first,
\* r2's second, both fields are in the record, and r1's answer already shows the
\* title only r2 set.
C10_Witness ==
    /\ Len(log) = 2
    /\ log[1].slot = "r1" /\ log[2].slot = "r2" /\ log[1].oid = log[2].oid
    /\ req["r1"].pc = "done" /\ req["r2"].pc = "done"
    /\ req["r1"].payload = [is_active |-> JFalse]
    /\ req["r2"].payload = [title |-> "t3", is_active |-> Null]
    /\ req["r1"].resp.status = 200
    /\ req["r1"].resp.items[1].title = "t3"
    /\ req["r1"].resp.items[1].is_active = JFalse
    /\ \E i \in 1..Len(asset) : asset[i].title = "t3" /\ asset[i].is_active = JFalse

====
